---- MODULE Spec2Model ----
(***************************************************************************)
(* The useLiveApi hook (src/hooks/useLiveApi.ts): the React state, the     *)
(* refs, and the callbacks the hook registers with the browser and with    *)
(* the live session.  One action per handler; the audio contexts, the      *)
(* microphone streams, the nodes and the remote sessions are environment   *)
(* objects identified by the connect() call that created them.             *)
(***************************************************************************)
EXTENDS Integers, Sequences, FiniteSets, TLC

\* ---------------------------------------------------------------- bounds
MaxConnects == 2      \* connect() calls in one behaviour
MaxPlaybackConnects == 1  \* connect() calls in one behaviour that plays audio
MaxChunks == 2        \* inbound audio chunks in one behaviour
MaxFrames == 2        \* capture frames encoded in one behaviour
MaxClock == 2         \* ticks of an output context's clock
MaxDuration == 1      \* longest decoded buffer, in clock ticks
MaxLevel == 3         \* largest rms * 5 of a frame, in halves
MaxMessages == 4      \* inbound messages with a transcription or turnComplete
MaxTranscriptConnects == 1  \* connect() calls in one behaviour that transcribes
MaxReconnectMessages == 2   \* such messages in a behaviour that reconnects

\* ------------------------------------------------------ program constants
Null == 0             \* useRef(null): a ref that holds nothing
VolumeCap == 2        \* Math.min(1, rms * 5), in halves

Attempts == 1..MaxConnects
Chunks == 1..MaxChunks
ReleaseSteps == 1..6  \* the six release operations of cleanupAudio, in order

VARIABLES
  \* React state (useState)
  isConnected, isListening, volume, error,
  \* refs (useRef)
  inputContextRef, outputContextRef, inputProcessorRef, inputSourceRef,
  streamRef, nextStartTimeRef, activeSourcesRef, sessionPromiseRef,
  disconnectRef,
  \* environment objects, by the connect() call that created them
  inCtx, outCtx, stream, proc, srcNode, currentTime,
  \* each connect() call: where it is, and what its closure captured
  connectPc, closure,
  \* each remote session
  session, resolved, pendingThen, closeCalls,
  \* each inbound audio chunk and the buffer source made from it
  decode, source,
  \* the transcript: React state, the setTranscripts updates React has not
  \* processed yet, and the two accumulation refs
  transcripts, updateQueue, currentInputTransRef, currentOutputTransRef,
  \* counters
  nConnects, nChunks, encoded, frameSends, nMessages,
  \* observation of the last handler that ran
  lastOp, lastK, threw, relLog, tickInfo, cancelled, stale, lastMsg, lastTurn,
  \* the transcript events so far, and the output fragments among them
  script, fragments

reactVars == <<isConnected, isListening, volume, error>>
refVars == <<inputContextRef, outputContextRef, inputProcessorRef, inputSourceRef,
             streamRef, nextStartTimeRef, activeSourcesRef, sessionPromiseRef,
             disconnectRef>>
envVars == <<inCtx, outCtx, stream, proc, srcNode, currentTime>>
connVars == <<connectPc, closure>>
sessVars == <<session, resolved, pendingThen, closeCalls>>
chunkVars == <<decode, source>>
countVars == <<nConnects, nChunks, encoded, frameSends>>
transVars == <<transcripts, updateQueue, currentInputTransRef, currentOutputTransRef,
               nMessages>>
obsVars == <<lastOp, lastK, threw, relLog, tickInfo, cancelled, stale, lastMsg,
             lastTurn>>
scriptVars == <<script, fragments>>
progVars == <<reactVars, refVars, envVars, connVars, sessVars, chunkVars, countVars,
              transVars>>
vars == <<progVars, obsVars, scriptVars>>

Max(a, b) == IF a >= b THEN a ELSE b
Min(a, b) == IF a <= b THEN a ELSE b

\* ------------------------------------------------------------ cleanupAudio
\* The state cleanupAudio reads and writes, as one record.
Dev == [ipr |-> inputProcessorRef, isr |-> inputSourceRef, sr |-> streamRef,
        icr |-> inputContextRef, ocr |-> outputContextRef,
        proc |-> proc, srcNode |-> srcNode, stream |-> stream,
        inCtx |-> inCtx, outCtx |-> outCtx, source |-> source,
        active |-> activeSourcesRef, next |-> nextStartTimeRef,
        log |-> <<>>, threw |-> FALSE]

\* One guarded release of cleanupAudio: `if (ref.current) { ref.current.op();
\* ref.current = null; }`.  f is the release operation that raises (0: none):
\* the exception leaves the ref set and abandons the rest of the function.
ReleaseRef(d, f, step, ref, obj, name) ==
  IF d.threw \/ d[ref] = Null THEN d
  ELSE IF f = step THEN [d EXCEPT !.threw = TRUE]
  ELSE [d EXCEPT ![obj][d[ref]] = "released", ![ref] = Null,
                 !.log = Append(@, name)]

\* activeSourcesRef.current.forEach(source => source.stop()); clear(); cursor = 0
StopSources(d, f) ==
  IF d.threw THEN d
  ELSE IF f = 6 /\ d.active # {} THEN [d EXCEPT !.threw = TRUE]
  ELSE [d EXCEPT !.source = [c \in Chunks |->
                     IF c \in d.active THEN [d.source[c] EXCEPT !.st = "stopped"]
                     ELSE d.source[c]],
                 !.log = IF d.active # {} THEN Append(@, "sources") ELSE @,
                 !.active = {}, !.next = 0]

cleanupAudio(d, f) ==
  LET d1 == ReleaseRef(d, f, 1, "ipr", "proc", "processor")
      d2 == ReleaseRef(d1, f, 2, "isr", "srcNode", "sourceNode")
      d3 == ReleaseRef(d2, f, 3, "sr", "stream", "stream")
      d4 == ReleaseRef(d3, f, 4, "icr", "inCtx", "inputContext")
      d5 == ReleaseRef(d4, f, 5, "ocr", "outCtx", "outputContext")
  IN StopSources(d5, f)

\* Writes the record cleanupAudio returns back to the refs and the objects.
StoreDev(d) ==
  /\ inputProcessorRef' = d.ipr
  /\ inputSourceRef' = d.isr
  /\ streamRef' = d.sr
  /\ inputContextRef' = d.icr
  /\ outputContextRef' = d.ocr
  /\ proc' = d.proc
  /\ srcNode' = d.srcNode
  /\ stream' = d.stream
  /\ inCtx' = d.inCtx
  /\ outCtx' = d.outCtx
  /\ source' = d.source
  /\ activeSourcesRef' = d.active
  /\ nextStartTimeRef' = d.next

\* ------------------------------------------------------------------- Init
NoSource == [st |-> "none", start |-> 0, begin |-> 0, dur |-> 0, ctx |-> Null]
NoDecode == [st |-> "none", ctx |-> Null, sess |-> Null, interrupted |-> FALSE]
NoClosure == [isListening |-> TRUE, inputCtx |-> Null, outputCtx |-> Null]
NoTick == [k |-> Null, muted |-> FALSE, volumeSet |-> FALSE, encoded |-> FALSE,
           sent |-> FALSE]
\* A server message with no content.  An optional field is <<>> when absent and
\* <<text>> when present.
NoMessage == [input |-> <<>>, output |-> <<>>, turnComplete |-> FALSE,
              audio |-> FALSE, interrupted |-> FALSE]
\* What the last handler's message carried besides text.
NoFlags == [turnComplete |-> FALSE, audio |-> FALSE, interrupted |-> FALSE]
NoTurn == [ran |-> FALSE, prev |-> <<>>, next |-> <<>>, finalInput |-> "",
           finalOutput |-> ""]

Init ==
  /\ isConnected = FALSE
  /\ isListening = TRUE
  /\ volume = 0
  /\ error = "null"
  /\ inputContextRef = Null
  /\ outputContextRef = Null
  /\ inputProcessorRef = Null
  /\ inputSourceRef = Null
  /\ streamRef = Null
  /\ nextStartTimeRef = 0
  /\ activeSourcesRef = {}
  /\ sessionPromiseRef = Null
  /\ disconnectRef = Null
  /\ inCtx = [k \in Attempts |-> "none"]
  /\ outCtx = [k \in Attempts |-> "none"]
  /\ stream = [k \in Attempts |-> "none"]
  /\ proc = [k \in Attempts |-> "none"]
  /\ srcNode = [k \in Attempts |-> "none"]
  /\ currentTime = [k \in Attempts |-> 0]
  /\ connectPc = [k \in Attempts |-> "unused"]
  /\ closure = [k \in Attempts |-> NoClosure]
  /\ session = [k \in Attempts |-> "none"]
  /\ resolved = [k \in Attempts |-> FALSE]
  /\ pendingThen = [k \in Attempts |-> <<>>]
  /\ closeCalls = {}
  /\ decode = [c \in Chunks |-> NoDecode]
  /\ source = [c \in Chunks |-> NoSource]
  /\ nConnects = 0
  /\ nChunks = 0
  /\ encoded = 0
  /\ frameSends = 0
  /\ transcripts = <<>>
  /\ updateQueue = <<>>
  /\ currentInputTransRef = ""
  /\ currentOutputTransRef = ""
  /\ nMessages = 0
  /\ lastMsg = NoFlags
  /\ lastTurn = NoTurn
  /\ script = "empty"
  /\ fragments = ""
  /\ lastOp = "init"
  /\ lastK = Null
  /\ threw = FALSE
  /\ relLog = <<>>
  /\ tickInfo = NoTick
  /\ cancelled = {}
  /\ stale = {}

\* The observation variables a handler other than disconnect and the capture
\* tick writes: which handler ran last, for which object, and whether it raised.
Observe(op, k, t) ==
  /\ lastOp' = op
  /\ lastK' = k
  /\ threw' = t
  /\ relLog' = <<>>
  /\ tickInfo' = NoTick
  /\ lastMsg' = NoFlags
  /\ lastTurn' = NoTurn
  /\ UNCHANGED stale

\* ---------------------------------------------------------------- connect
\* connect(), up to `await getUserMedia`: clears the error and creates the two
\* audio contexts, overwriting whatever the refs held.
ConnectUpTo(n) ==
  /\ nConnects < n
  /\ LET k == nConnects + 1 IN
     /\ nConnects' = k
     /\ error' = "null"
     /\ inCtx' = [inCtx EXCEPT ![k] = "live"]
     /\ outCtx' = [outCtx EXCEPT ![k] = "live"]
     /\ inputContextRef' = k
     /\ outputContextRef' = k
     /\ connectPc' = [connectPc EXCEPT ![k] = "awaitMic"]
     /\ closure' = [closure EXCEPT ![k].isListening = isListening]
     /\ cancelled' = {}
     /\ Observe("connect", k, FALSE)
  /\ UNCHANGED <<isConnected, isListening, volume, inputProcessorRef, inputSourceRef,
                 streamRef, nextStartTimeRef, activeSourcesRef, sessionPromiseRef,
                 disconnectRef, stream, proc, srcNode, currentTime, sessVars,
                 chunkVars, nChunks, encoded, frameSends>>
  /\ UNCHANGED <<transVars, scriptVars>>

Connect == ConnectUpTo(MaxConnects)
ConnectPlayback == ConnectUpTo(MaxPlaybackConnects)

\* connect()'s catch block: setError(err.message || "Failed to connect");
\* cleanupAudio().
ConnectCatch(k, message, op) ==
  LET d == cleanupAudio(Dev, 0) IN
  /\ error' = message
  /\ StoreDev(d)
  /\ connectPc' = [connectPc EXCEPT ![k] = "denied"]
  /\ Observe(op, k, FALSE)
  /\ UNCHANGED cancelled

\* setError's argument in the catch block: err.message || "Failed to connect".
ErrorMessage(message) == IF message = "" THEN "Failed to connect" ELSE message

\* getUserMedia rejects (permission denied, no device), with or without a
\* message.
MicDenied(k) ==
  /\ connectPc[k] = "awaitMic"
  /\ \E message \in {"", "Permission denied"} :
       ConnectCatch(k, ErrorMessage(message), "micDenied")
  /\ UNCHANGED <<isConnected, isListening, volume, sessionPromiseRef, disconnectRef,
                 currentTime, closure, sessVars, decode, countVars>>
  /\ UNCHANGED <<transVars, scriptVars>>

\* getUserMedia resolves: the stream is stored, the contexts are read back from
\* the refs, and the live session is requested (the promise is not awaited).
MicGranted(k) ==
  /\ connectPc[k] = "awaitMic"
  /\ IF inputContextRef = Null \/ outputContextRef = Null
     THEN LET d == cleanupAudio([Dev EXCEPT !.sr = k, !.stream[k] = "live"], 0) IN
          /\ error' = "Could not initialize audio contexts"
          /\ StoreDev(d)
          /\ connectPc' = [connectPc EXCEPT ![k] = "failed"]
          /\ Observe("micGranted", k, FALSE)
          /\ UNCHANGED <<cancelled, closure, sessionPromiseRef, session>>
     ELSE /\ streamRef' = k
          /\ stream' = [stream EXCEPT ![k] = "live"]
          /\ closure' = [closure EXCEPT ![k].inputCtx = inputContextRef,
                                        ![k].outputCtx = outputContextRef]
          /\ sessionPromiseRef' = k
          /\ session' = [session EXCEPT ![k] = "handshaking"]
          /\ connectPc' = [connectPc EXCEPT ![k] = "requested"]
          /\ Observe("micGranted", k, FALSE)
          /\ UNCHANGED <<cancelled, error, inputContextRef, outputContextRef,
                         inputProcessorRef, inputSourceRef, nextStartTimeRef,
                         activeSourcesRef, inCtx, outCtx, proc, srcNode, source>>
  /\ UNCHANGED <<isConnected, isListening, volume, disconnectRef, currentTime,
                 resolved, pendingThen, closeCalls, decode, countVars>>
  /\ UNCHANGED <<transVars, scriptVars>>

\* ------------------------------------------------------------ remote open
\* A promise's queued `.then` callbacks, run when it resolves: `send` is
\* session.sendRealtimeInput, `close` is session.close.
SendsIn(q) == Cardinality({i \in 1..Len(q) : q[i] = "send"})
ClosesIn(q) == \E i \in 1..Len(q) : q[i] = "close"

\* callbacks.onopen: setIsConnected(true), then the capture graph is built on
\* the closure's input context from whatever streamRef holds now.
\* createMediaStreamSource raises on a null stream; on a closed context the
\* outcome depends on the browser.  After a raising onopen the session promise
\* may or may not resolve.
OnOpen(k) ==
  /\ session[k] = "handshaking"
  /\ isConnected' = TRUE
  /\ session' = [session EXCEPT ![k] = "open"]
  /\ \E ok \in (IF streamRef = Null THEN {FALSE}
                ELSE IF inCtx[closure[k].inputCtx] = "live" THEN {TRUE}
                ELSE BOOLEAN) :
     \E res \in (IF ok THEN {TRUE} ELSE BOOLEAN) :
       /\ IF ok
          THEN /\ srcNode' = [srcNode EXCEPT ![k] = "live"]
               /\ inputSourceRef' = k
               /\ proc' = [proc EXCEPT ![k] = "live"]
               /\ inputProcessorRef' = k
          ELSE UNCHANGED <<srcNode, inputSourceRef, proc, inputProcessorRef>>
       /\ resolved' = [resolved EXCEPT ![k] = res]
       /\ IF res
          THEN /\ frameSends' = frameSends + SendsIn(pendingThen[k])
               /\ closeCalls' = IF ClosesIn(pendingThen[k])
                                THEN closeCalls \cup {k} ELSE closeCalls
               /\ pendingThen' = [pendingThen EXCEPT ![k] = <<>>]
          ELSE UNCHANGED <<frameSends, closeCalls, pendingThen>>
       /\ Observe("onopen", k, ~ok)
  /\ UNCHANGED <<cancelled, isListening, volume, error, inputContextRef,
                 outputContextRef, streamRef, nextStartTimeRef, activeSourcesRef,
                 sessionPromiseRef, disconnectRef, inCtx, outCtx, stream,
                 currentTime, connVars, chunkVars, nConnects, nChunks, encoded>>
  /\ UNCHANGED <<transVars, scriptVars>>

\* ----------------------------------------------------------- capture tick
\* setVolume(Math.min(1, rms * 5)), with rms * 5 given in halves.
VolumeLevel(level) == Min(VolumeCap, level)

\* processor.onaudioprocess of the processor connect() call k created.  It
\* reads the isListening its connect() closed over, and sends through whatever
\* promise sessionPromiseRef holds now.
OnAudioProcess(k) ==
  /\ proc[k] = "live"
  /\ inCtx[closure[k].inputCtx] = "live"
  /\ encoded < MaxFrames
  /\ IF ~closure[k].isListening
     THEN /\ tickInfo' = [k |-> k, muted |-> ~isListening, volumeSet |-> FALSE,
                          encoded |-> FALSE, sent |-> FALSE]
          /\ UNCHANGED <<volume, encoded, frameSends, pendingThen>>
     ELSE \E level \in 0..MaxLevel :
          LET s == sessionPromiseRef IN
          /\ volume' = VolumeLevel(level)
          /\ encoded' = encoded + 1
          /\ frameSends' = IF s # Null /\ resolved[s] THEN frameSends + 1
                           ELSE frameSends
          /\ pendingThen' = IF s # Null /\ ~resolved[s]
                            THEN [pendingThen EXCEPT ![s] = Append(@, "send")]
                            ELSE pendingThen
          /\ tickInfo' = [k |-> k, muted |-> ~isListening, volumeSet |-> TRUE,
                          encoded |-> TRUE, sent |-> s # Null]
  /\ lastOp' = "tick"
  /\ lastK' = k
  /\ threw' = FALSE
  /\ relLog' = <<>>
  /\ UNCHANGED <<cancelled, stale>>
  /\ UNCHANGED <<isConnected, isListening, error, refVars, envVars, connVars,
                 session, resolved, closeCalls, chunkVars, nConnects, nChunks>>
  /\ lastMsg' = NoFlags
  /\ lastTurn' = NoTurn
  /\ UNCHANGED <<transVars, scriptVars>>

\* toggleMute(): setIsListening(prev => !prev).
ToggleMute ==
  /\ isListening' = ~isListening
  /\ Observe("toggleMute", Null, FALSE)
  /\ UNCHANGED <<cancelled, isConnected, volume, error, refVars, envVars, connVars,
                 sessVars, chunkVars, countVars>>
  /\ UNCHANGED <<transVars, scriptVars>>

\* ------------------------------------------------------------- disconnect
\* disconnect(): the close is requested only when disconnectRef holds
\* something, through a `.then` on the session promise, so session.close()
\* runs after the synchronous body (or when the promise resolves); then
\* cleanupAudio, setIsConnected(false), setVolume(0), sessionPromiseRef = null.
\* A release that raises (f) abandons everything after it.
DisconnectOp(f) ==
  LET s == sessionPromiseRef
      closeReq == disconnectRef # Null /\ s # Null
      closeNow == closeReq /\ resolved[s]
      d == cleanupAudio(Dev, f)
  IN
  /\ (f # 0 => d.threw)
  /\ StoreDev(d)
  /\ IF d.threw
     THEN UNCHANGED <<isConnected, volume, sessionPromiseRef>>
     ELSE /\ isConnected' = FALSE
          /\ volume' = 0
          /\ sessionPromiseRef' = Null
  /\ closeCalls' = IF closeNow THEN closeCalls \cup {s} ELSE closeCalls
  /\ pendingThen' = IF closeReq /\ ~resolved[s]
                    THEN [pendingThen EXCEPT ![s] = Append(@, "close")]
                    ELSE pendingThen
  /\ relLog' = IF closeNow THEN Append(d.log, "close") ELSE d.log
  /\ lastOp' = "disconnect"
  /\ lastK' = s
  /\ threw' = d.threw
  /\ cancelled' = cancelled \cup {k \in Attempts : session[k] = "handshaking"}
  /\ stale' = stale \cup {c \in Chunks : decode[c].st = "pending"}
  /\ tickInfo' = NoTick
  /\ UNCHANGED <<isListening, error, disconnectRef, currentTime, connVars,
                 session, resolved, decode, countVars>>
  /\ lastMsg' = NoFlags
  /\ lastTurn' = NoTurn
  /\ UNCHANGED <<transVars, scriptVars>>

Disconnect == DisconnectOp(0)

\* disconnect() in an environment where one release operation raises.
DisconnectFault == \E f \in ReleaseSteps : DisconnectOp(f)

\* ------------------------------------------------- remote close and error
\* An onclose that reports an error the way onerror does: the handler C11
\* must tell from the code's.
OnCloseReportsError(k) ==
  /\ session[k] = "open"
  /\ session' = [session EXCEPT ![k] = "closed"]
  /\ error' = "Connection error occurred."
  /\ isConnected' = FALSE
  /\ Observe("onclose", k, FALSE)
  /\ UNCHANGED <<cancelled, isListening, volume, refVars, envVars, connVars,
                 resolved, pendingThen, closeCalls, chunkVars, countVars>>
  /\ UNCHANGED <<transVars, scriptVars>>

\* callbacks.onclose: setIsConnected(false).
OnClose(k) ==
  /\ session[k] = "open"
  /\ session' = [session EXCEPT ![k] = "closed"]
  /\ isConnected' = FALSE
  /\ Observe("onclose", k, FALSE)
  /\ UNCHANGED <<cancelled, isListening, volume, error, refVars, envVars, connVars,
                 resolved, pendingThen, closeCalls, chunkVars, countVars>>
  /\ UNCHANGED <<transVars, scriptVars>>

\* callbacks.onerror: setError("Connection error occurred."); setIsConnected(false).
OnError(k) ==
  /\ session[k] \in {"handshaking", "open"}
  /\ session' = [session EXCEPT ![k] = "closed"]
  /\ error' = "Connection error occurred."
  /\ isConnected' = FALSE
  /\ Observe("onerror", k, FALSE)
  /\ UNCHANGED <<cancelled, isListening, volume, refVars, envVars, connVars,
                 resolved, pendingThen, closeCalls, chunkVars, countVars>>
  /\ UNCHANGED <<transVars, scriptVars>>

\* -------------------------------------------------------------- transcript
\* The text a transcription of the n-th text-bearing message carries: nothing,
\* or a fragment of its own (the handler tests a text for emptiness only).
Letters == <<"a", "b", "c", "d", "e", "f">>
Texts(n) == {"", Letters[n]}
OptionalText(n) == {<<>>} \cup {<<t>> : t \in Texts(n)}

\* serverContent: inputTranscription, outputTranscription, turnComplete, the
\* inline audio of modelTurn, interrupted.
Messages(n) == [input : OptionalText(n), output : OptionalText(n),
                turnComplete : BOOLEAN, audio : BOOLEAN, interrupted : BOOLEAN]
                 \ {NoMessage}
\* The messages of one field, except audio: one transcript event each.  A
\* message of several fields acts as its fields do one after the other.
TranscriptMessages(n) ==
  {[NoMessage EXCEPT !.input = <<t>>] : t \in Texts(n)}
    \cup {[NoMessage EXCEPT !.output = <<t>>] : t \in Texts(n)}
    \cup {[NoMessage EXCEPT !.turnComplete = TRUE],
          [NoMessage EXCEPT !.interrupted = TRUE]}
PlaybackMessages ==
  {m \in Messages(1) : m.input = <<>> /\ m.output = <<>> /\ ~m.turnComplete}
CarriesText(msg) == msg.input # <<>> \/ msg.output # <<>> \/ msg.turnComplete

\* A transcript entry; a finalized entry has no isPartial field, which reads
\* as false.
Entry(role, text, isPartial) == [role |-> role, text |-> text, isPartial |-> isPartial]
IsPartialOf(t, role) == t.role = role /\ t.isPartial

\* The updater of the inputTranscription branch, with the text it reads from
\* currentInputTransRef when it runs.
PartialInputUpdate(prev, text) ==
  IF prev # <<>> /\ IsPartialOf(prev[Len(prev)], "user")
  THEN Append(SubSeq(prev, 1, Len(prev) - 1), Entry("user", text, TRUE))
  ELSE Append(prev, Entry("user", text, TRUE))

\* The updater of the outputTranscription branch, with the text it reads from
\* currentOutputTransRef when it runs.
PartialOutputUpdate(prev, text) ==
  IF prev # <<>> /\ IsPartialOf(prev[Len(prev)], "model")
  THEN Append(SubSeq(prev, 1, Len(prev) - 1), Entry("model", text, TRUE))
  ELSE IF prev # <<>> /\ prev[Len(prev)].role = "user"
  THEN Append(prev, Entry("model", text, TRUE))
  ELSE IF prev = <<>>
  THEN <<Entry("model", text, TRUE)>>
  ELSE Append(prev, Entry("model", text, TRUE))

\* A findIndex that looks at the role alone: the first entry of the role,
\* finalized or not.  C13 must tell it from the code's.
FirstOfRole(s, role) ==
  IF \E i \in 1..Len(s) : s[i].role = role
  THEN CHOOSE i \in 1..Len(s) :
         /\ s[i].role = role
         /\ \A j \in 1..(i - 1) : s[j].role # role
  ELSE 0

\* newTranscripts.findIndex(t => t.role === role && t.isPartial): the first
\* match, 0 for none (findIndex's -1).
FindIndex(s, role) ==
  IF \E i \in 1..Len(s) : IsPartialOf(s[i], role)
  THEN CHOOSE i \in 1..Len(s) :
         /\ IsPartialOf(s[i], role)
         /\ \A j \in 1..(i - 1) : ~IsPartialOf(s[j], role)
  ELSE 0

\* `if (final) { idx = findIndex(..); if (idx !== -1) new[idx] = {role, text: final} }`
Finalize(s, role, final) ==
  LET idx == FindIndex(s, role) IN
  IF final # "" /\ idx # 0 THEN [s EXCEPT ![idx] = Entry(role, final, FALSE)]
  ELSE s

\* The updater of the turnComplete branch, with the finalInput and finalOutput
\* its closure captured.
TurnCompleteUpdate(prev, finalInput, finalOutput) ==
  Finalize(Finalize(prev, "user", finalInput), "model", finalOutput)

\* One queued setTranscripts update.  React computes the new state at once when
\* the component has no update pending (eager), and keeps that state; otherwise
\* the updater runs when the component renders, and reads the refs then.
ApplyUpdate(prev, u, inRef, outRef) ==
  IF u.eager THEN u.state
  ELSE IF u.kind = "input" THEN PartialInputUpdate(prev, inRef)
  ELSE IF u.kind = "output" THEN PartialOutputUpdate(prev, outRef)
  ELSE TurnCompleteUpdate(prev, u.finalInput, u.finalOutput)

\* setTranscripts(updater) called with the refs holding inRef and outRef.
SetTranscripts(q, kind, eager, inRef, outRef) ==
  LET u == [kind |-> kind, eager |-> FALSE, state |-> <<>>,
            finalInput |-> IF kind = "turnComplete" THEN inRef ELSE "",
            finalOutput |-> IF kind = "turnComplete" THEN outRef ELSE ""]
  IN IF eager /\ q = <<>>
     THEN <<[u EXCEPT !.eager = TRUE,
                      !.state = ApplyUpdate(transcripts, u, inRef, outRef)]>>
     ELSE Append(q, u)

\* The inputTranscription branch of onmessage, on the refs and the queue t.
OnInputTranscription(t, msg, eager) ==
  IF msg.input # <<>> /\ msg.input[1] # ""
  THEN LET acc == t.inRef \o msg.input[1] IN
       [t EXCEPT !.inRef = acc,
                 !.queue = SetTranscripts(t.queue, "input", eager, acc, t.outRef)]
  ELSE t

\* An outputTranscription branch that keeps the last fragment only (`=` for
\* `+=`): C15 must tell it from the code's.
OutputKeepsLastFragment(t, msg, eager) ==
  IF msg.output # <<>> /\ msg.output[1] # ""
  THEN LET acc == msg.output[1] IN
       [t EXCEPT !.outRef = acc,
                 !.queue = SetTranscripts(t.queue, "output", eager, t.inRef, acc)]
  ELSE t

\* The outputTranscription branch of onmessage.
OnOutputTranscription(t, msg, eager) ==
  IF msg.output # <<>> /\ msg.output[1] # ""
  THEN LET acc == t.outRef \o msg.output[1] IN
       [t EXCEPT !.outRef = acc,
                 !.queue = SetTranscripts(t.queue, "output", eager, t.inRef, acc)]
  ELSE t

\* The turnComplete branch of onmessage: the update is queued with the two
\* accumulated texts, then both refs are emptied.
OnTurnComplete(t, msg, eager) ==
  IF msg.turnComplete
  THEN [inRef |-> "", outRef |-> "",
        queue |-> SetTranscripts(t.queue, "turnComplete", eager, t.inRef, t.outRef)]
  ELSE t

\* The three transcript branches of onmessage, in the handler's order.
Transcribe(msg, eager) ==
  LET t0 == [inRef |-> currentInputTransRef, outRef |-> currentOutputTransRef,
             queue |-> updateQueue]
  IN OnTurnComplete(
       OnOutputTranscription(OnInputTranscription(t0, msg, eager), msg, eager),
       msg, eager)

\* The queued updates processed in order by a render; turn describes the last
\* turnComplete update among them: the list it was given and the list it made.
RECURSIVE ApplyQueue(_, _, _, _, _)
ApplyQueue(prev, q, turn, inRef, outRef) ==
  IF q = <<>> THEN [state |-> prev, turn |-> turn]
  ELSE LET u == Head(q)
           next == ApplyUpdate(prev, u, inRef, outRef)
       IN ApplyQueue(next, Tail(q),
                     IF u.kind = "turnComplete"
                     THEN [ran |-> TRUE, prev |-> prev, next |-> next,
                           finalInput |-> u.finalInput,
                           finalOutput |-> u.finalOutput]
                     ELSE turn,
                     inRef, outRef)

\* The transcript events so far: none ("empty"), partialOutput events only
\* ("outs"), those followed by one turnComplete ("done"), anything else.
ScriptAfter(msg) ==
  LET out == msg = [NoMessage EXCEPT !.output = msg.output] /\ msg.output # <<>>
      tc == msg = [NoMessage EXCEPT !.turnComplete = TRUE]
  IN IF out /\ script \in {"empty", "outs"} THEN "outs"
     ELSE IF tc /\ script = "outs" THEN "done"
     ELSE "other"

\* React renders the component: the queued setTranscripts updates are
\* processed in order and the result becomes the transcripts state.
Render ==
  LET r == ApplyQueue(transcripts, updateQueue, NoTurn, currentInputTransRef,
                      currentOutputTransRef)
  IN
  /\ updateQueue # <<>>
  /\ transcripts' = r.state
  /\ updateQueue' = <<>>
  /\ lastOp' = "render"
  /\ lastK' = Null
  /\ threw' = FALSE
  /\ relLog' = <<>>
  /\ tickInfo' = NoTick
  /\ lastMsg' = NoFlags
  /\ lastTurn' = r.turn
  /\ UNCHANGED <<cancelled, stale, scriptVars, reactVars, refVars, envVars, connVars,
                 sessVars, chunkVars, countVars, currentInputTransRef,
                 currentOutputTransRef, nMessages>>

\* ------------------------------------------------------- inbound messages
\* The `interrupted` branch of onmessage: stop and forget every active source,
\* cursor back to zero.
Interrupt(src, active, next) ==
  [source |-> [c \in Chunks |-> IF c \in active THEN [src[c] EXCEPT !.st = "stopped"]
                                ELSE src[c]],
   active |-> {},
   next |-> 0]

\* callbacks.onmessage, up to `await decodeAudioData`: the transcript branches,
\* then the audio branch, then the interrupted branch.  With audio and no
\* output context the handler returns before the interrupted branch; with
\* audio, the cursor is raised to the clock of the context outputContextRef
\* holds now and the rest of the handler waits for the decode.
OnMessage(k, msg, eager) ==
  LET t == Transcribe(msg, eager) IN
  /\ session[k] = "open"
  /\ CarriesText(msg) => nMessages < MaxMessages
  /\ nMessages' = IF CarriesText(msg) THEN nMessages + 1 ELSE nMessages
  /\ currentInputTransRef' = t.inRef
  /\ updateQueue' = t.queue
  /\ IF msg.audio
     THEN /\ nChunks < MaxChunks
          /\ nChunks' = nChunks + 1
          /\ IF outputContextRef = Null
             THEN /\ decode' = [decode EXCEPT ![nChunks + 1] =
                                  [NoDecode EXCEPT !.st = "dropped", !.sess = k]]
                  /\ UNCHANGED nextStartTimeRef
             ELSE /\ nextStartTimeRef' =
                       Max(nextStartTimeRef, currentTime[outputContextRef])
                  /\ decode' = [decode EXCEPT ![nChunks + 1] =
                                  [st |-> "pending", ctx |-> outputContextRef,
                                   sess |-> k, interrupted |-> msg.interrupted]]
          /\ currentOutputTransRef' = t.outRef
          /\ UNCHANGED <<source, activeSourcesRef>>
     ELSE IF msg.interrupted
     THEN LET r == Interrupt(source, activeSourcesRef, nextStartTimeRef) IN
          /\ source' = r.source
          /\ activeSourcesRef' = r.active
          /\ nextStartTimeRef' = r.next
          /\ currentOutputTransRef' = ""
          /\ UNCHANGED <<nChunks, decode>>
     ELSE /\ currentOutputTransRef' = t.outRef
          /\ UNCHANGED <<source, activeSourcesRef, nextStartTimeRef, nChunks, decode>>
  /\ lastOp' = "onmessage"
  /\ lastK' = k
  /\ threw' = FALSE
  /\ relLog' = <<>>
  /\ tickInfo' = NoTick
  /\ lastMsg' = [turnComplete |-> msg.turnComplete, audio |-> msg.audio,
                 interrupted |-> msg.interrupted]
  /\ lastTurn' = NoTurn
  /\ script' = ScriptAfter(msg)
  /\ fragments' = IF script' = "outs" THEN fragments \o msg.output[1]
                  ELSE IF script' = "done" THEN fragments
                  ELSE ""
  /\ UNCHANGED <<cancelled, stale, transcripts, reactVars, inputContextRef,
                 outputContextRef, inputProcessorRef, inputSourceRef, streamRef,
                 sessionPromiseRef, disconnectRef, envVars, connVars, sessVars,
                 nConnects, encoded, frameSends>>

\* The buffer source the handler starts once the decode has resolved:
\* source.start(cursor); cursor += duration; activeSources.add(source).
\* A start time in the past makes the source begin at once, at the clock of
\* its context.
Schedule(c, dur) ==
  [source |-> [source EXCEPT ![c] =
                 [st |-> "playing", start |-> nextStartTimeRef,
                  begin |-> Max(nextStartTimeRef, currentTime[decode[c].ctx]),
                  dur |-> dur, ctx |-> decode[c].ctx]],
   active |-> activeSourcesRef \cup {c},
   next |-> nextStartTimeRef + dur]

\* A catch block that resets the playback the way an interruption does: C19
\* must tell it from the code's.
DroppedStopsPlayback == Interrupt(source, activeSourcesRef, nextStartTimeRef)

\* decodeAudioData(base64ToBytes(data), ctx, 24000, 1), of utils/audio: it
\* resolves to a buffer of some duration, or rejects, after the handler has
\* yielded, so that other callbacks run while a decode is in flight.
decodeAudioData ==
  {[ok |-> TRUE, duration |-> d] : d \in 1..MaxDuration}
    \cup {[ok |-> FALSE, duration |-> 0]}

\* The catch block around the decode: the exception is logged, and nothing of
\* the playback state is touched.
Dropped ==
  [source |-> source, active |-> activeSourcesRef, next |-> nextStartTimeRef]

\* The rest of onmessage after `await decodeAudioData`: on success the buffer
\* is scheduled, an exception inside the try block is logged and dropped; then
\* the interrupted branch of the same message runs.
DecodeDone(c) ==
  /\ decode[c].st = "pending"
  /\ \E r \in decodeAudioData :
     LET a == IF r.ok THEN Schedule(c, r.duration) ELSE Dropped
         b == IF decode[c].interrupted THEN Interrupt(a.source, a.active, a.next)
              ELSE a
     IN /\ decode' = [decode EXCEPT ![c].st = IF r.ok THEN "done" ELSE "failed"]
        /\ source' = b.source
        /\ activeSourcesRef' = b.active
        /\ nextStartTimeRef' = b.next
  /\ currentOutputTransRef' = IF decode[c].interrupted THEN ""
                              ELSE currentOutputTransRef
  /\ lastOp' = "decodeDone"
  /\ lastK' = c
  /\ threw' = FALSE
  /\ relLog' = <<>>
  /\ tickInfo' = NoTick
  /\ lastMsg' = [NoFlags EXCEPT !.audio = TRUE,
                                !.interrupted = decode[c].interrupted]
  /\ lastTurn' = NoTurn
  /\ UNCHANGED <<cancelled, stale, scriptVars, reactVars, inputContextRef,
                 outputContextRef, inputProcessorRef, inputSourceRef, streamRef,
                 sessionPromiseRef, disconnectRef, envVars, connVars, sessVars,
                 countVars, transcripts, updateQueue, currentInputTransRef,
                 nMessages>>

\* The `ended` listener of a source that played to its end:
\* activeSourcesRef.current.delete(source).
SourceEnded(c) ==
  /\ source[c].st = "playing"
  /\ outCtx[source[c].ctx] = "live"
  /\ currentTime[source[c].ctx] >= source[c].begin + source[c].dur
  /\ source' = [source EXCEPT ![c].st = "ended"]
  /\ activeSourcesRef' = activeSourcesRef \ {c}
  /\ Observe("ended", c, FALSE)
  /\ UNCHANGED <<cancelled, reactVars, inputContextRef, outputContextRef,
                 inputProcessorRef, inputSourceRef, streamRef, nextStartTimeRef,
                 sessionPromiseRef, disconnectRef, envVars, connVars, sessVars,
                 decode, countVars>>
  /\ UNCHANGED <<transVars, scriptVars>>

\* The clock of a running output context advances (a clock nothing reads any
\* more is left alone: no handler can tell).
AdvanceClock(k) ==
  /\ outCtx[k] = "live"
  /\ \/ k = outputContextRef
     \/ \E c \in Chunks : source[c].st = "playing" /\ source[c].ctx = k
  /\ currentTime[k] < MaxClock
  /\ currentTime' = [currentTime EXCEPT ![k] = @ + 1]
  /\ Observe("clock", k, FALSE)
  /\ UNCHANGED <<cancelled, reactVars, refVars, inCtx, outCtx, stream, proc, srcNode,
                 connVars, sessVars, chunkVars, countVars>>
  /\ UNCHANGED <<transVars, scriptVars>>

\* ------------------------------------------------------------------ Next
\* The session's life cycle after connect() was called: the microphone, the
\* handshake, disconnect, remote close and error.
Handshake ==
  \/ \E k \in Attempts : MicDenied(k)
  \/ \E k \in Attempts : MicGranted(k)
  \/ \E k \in Attempts : OnOpen(k)
  \/ Disconnect
  \/ \E k \in Attempts : OnClose(k)
  \/ \E k \in Attempts : OnError(k)

\* The way to an open session alone.
Opening ==
  \/ \E k \in Attempts : MicGranted(k)
  \/ \E k \in Attempts : OnOpen(k)

\* The capture side: frames from the microphone, and the mute button.
Capture ==
  \/ \E k \in Attempts : OnAudioProcess(k)
  \/ ToggleMute

\* What follows an inbound audio chunk: decodes, sources ending, the clock.
Playing ==
  \/ \E c \in Chunks : DecodeDone(c)
  \/ \E c \in Chunks : SourceEnded(c)
  \/ \E k \in Attempts : AdvanceClock(k)

\* The playback side: messages with inline audio and interruptions.
Playback ==
  \/ \E k \in Attempts : \E msg \in PlaybackMessages : OnMessage(k, msg, FALSE)
  \/ Playing

\* The transcript side: messages with transcriptions, turn boundaries and
\* interruptions, and the renders that process the queued updates.
Transcript ==
  \/ \E k \in Attempts : \E eager \in BOOLEAN :
       \E msg \in TranscriptMessages(Min(nMessages + 1, Len(Letters))) :
          OnMessage(k, msg, eager)
  \/ Render

\* Messages of every shape.
Inbound ==
  \/ \E k \in Attempts : \E eager \in BOOLEAN :
       \E msg \in Messages(Min(nMessages + 1, Len(Letters))) :
          OnMessage(k, msg, eager)
  \/ Render
  \/ Playing

\* The transcript side of a behaviour that disconnects and connects again.
TranscriptReconnect ==
  \/ /\ nMessages < MaxReconnectMessages
     /\ \E k \in Attempts : \E eager \in BOOLEAN :
          \E msg \in TranscriptMessages(Min(nMessages + 1, Len(Letters))) :
             OnMessage(k, msg, eager)
  \/ Render

ConnectTranscript == ConnectUpTo(MaxTranscriptConnects)

Next == Connect \/ Handshake \/ Capture \/ Inbound
NextCapture == Connect \/ Handshake \/ Capture
NextPlayback == ConnectPlayback \/ Handshake \/ Playback
NextTranscript == ConnectTranscript \/ Opening \/ Transcript
NextSession == Connect \/ Handshake
NextReconnect == Connect \/ Opening \/ Disconnect \/ TranscriptReconnect

\* The same program where a release operation of cleanupAudio may raise.
NextFault == NextPlayback \/ DisconnectFault

\* The whole hook, and its parts: the life cycle with the capture side, the life
\* cycle with the playback side, the latter where a release may raise, and the
\* life cycle with the transcript side; the life cycle alone; and a session
\* that is disconnected and started again while it transcribes.
Spec == Init /\ [][Next]_vars
SpecCapture == Init /\ [][NextCapture]_vars
SpecPlayback == Init /\ [][NextPlayback]_vars
SpecFault == Init /\ [][NextFault]_vars
SpecTranscript == Init /\ [][NextTranscript]_vars
SpecSession == Init /\ [][NextSession]_vars
SpecReconnect == Init /\ [][NextReconnect]_vars

\* ================================================================ claims
\* Every handle the hook's refs hold is let go, and every object those refs
\* ever pointed to is released.
RefsCleared ==
  /\ inputProcessorRef = Null
  /\ inputSourceRef = Null
  /\ streamRef = Null
  /\ inputContextRef = Null
  /\ outputContextRef = Null
NothingLive ==
  \A k \in Attempts :
    /\ proc[k] # "live"
    /\ srcNode[k] # "live"
    /\ stream[k] # "live"
    /\ inCtx[k] # "live"
    /\ outCtx[k] # "live"

\* SessionState Disconnected: not connected, and no connect() on its way.
Disconnected ==
  /\ ~isConnected
  /\ \A k \in Attempts : connectPc[k] # "awaitMic" /\ session[k] # "handshaking"

\* C1: when disconnect() is called while a remote session exists (its promise
\* resolved, the channel open), session.close() is invoked on that session, or
\* is queued on its promise, by the time disconnect() has run.
C1_DisconnectRequestsClose ==
  (lastOp = "disconnect" /\ lastK # Null /\ resolved[lastK] /\ session[lastK] = "open")
    => (lastK \in closeCalls \/ ClosesIn(pendingThen[lastK]))

\* C2: on a capture tick that occurs while the mute flag is set (isListening
\* false), no frame is encoded and none is sent or queued for sending.
C2_MutedTickSendsNothing ==
  (lastOp = "tick" /\ tickInfo.muted) => (~tickInfo.encoded /\ ~tickInfo.sent)

\* C3: on a capture tick that occurs while the mute flag is set, the volume is
\* still recomputed from the frame and reported.
C3_MutedTickUpdatesVolume ==
  (lastOp = "tick" /\ tickInfo.muted) => tickInfo.volumeSet

\* C4: when disconnect() was called while a handshake was in flight and no
\* connect() was called since, the remote open of that handshake neither sets
\* isConnected nor builds the capture graph.
C4_OpenAfterDisconnectIsDiscarded ==
  [][\A k \in Attempts :
       (k \in cancelled /\ session[k] = "handshaking" /\ session'[k] = "open")
         => (/\ ~isConnected'
             /\ proc' = proc
             /\ srcNode' = srcNode
             /\ inputProcessorRef' = inputProcessorRef
             /\ inputSourceRef' = inputSourceRef)]_vars

\* C5: when disconnect() ran while a chunk's decode was in flight, the decode's
\* completion starts no buffer, and leaves the active set empty and the cursor
\* at zero.
C5_DecodeAfterDisconnectIsDiscarded ==
  [][\A c \in Chunks :
       (c \in stale /\ decode[c].st = "pending" /\ decode'[c].st # "pending")
         => (/\ source'[c].st = "none"
             /\ activeSourcesRef' = {}
             /\ nextStartTimeRef' = 0)]_vars

\* C6: after disconnect() returns, every capture handle and output context is
\* released, the active set is empty, the cursor is zero and isConnected is
\* false, whatever the state it was called in.
C6_DisconnectTearsDown ==
  (lastOp = "disconnect" /\ ~threw)
    => (/\ RefsCleared
        /\ NothingLive
        /\ activeSourcesRef = {}
        /\ nextStartTimeRef = 0
        /\ ~isConnected)

\* The handles a disconnect() left held.
StillHeld ==
  {r \in {"processor", "sourceNode", "stream", "inputContext", "outputContext",
          "sources"} :
     \/ r = "processor" /\ inputProcessorRef # Null
     \/ r = "sourceNode" /\ inputSourceRef # Null
     \/ r = "stream" /\ streamRef # Null
     \/ r = "inputContext" /\ inputContextRef # Null
     \/ r = "outputContext" /\ outputContextRef # Null
     \/ r = "sources" /\ activeSourcesRef # {}}

\* C7: when one release operation of disconnect() raises, disconnect() still
\* completes without raising and every other release is performed: at most the
\* one handle whose release failed is still held.
C7_TeardownNeverThrows ==
  lastOp = "disconnect" => (~threw /\ Cardinality(StillHeld) <= 1 /\ ~isConnected)

\* C8: a disconnect() that follows a disconnect(), and a disconnect() called
\* when the session is already Disconnected, change nothing and raise nothing.
C8_DisconnectIdempotent ==
  [][(lastOp' = "disconnect" /\ (lastOp = "disconnect" \/ Disconnected))
       => (UNCHANGED progVars /\ ~threw')]_vars

\* The first half of C8 alone: a disconnect() that follows a disconnect() that
\* returned changes nothing.
DisconnectTwiceIsOnce ==
  [][(lastOp' = "disconnect" /\ lastOp = "disconnect" /\ ~threw)
       => (UNCHANGED progVars /\ ~threw')]_vars

\* C9: in a disconnect() of an open session that releases a device handle, the
\* close of the remote channel comes before the first release.
C9_CloseBeforeRelease ==
  (/\ lastOp = "disconnect"
   /\ lastK # Null
   /\ resolved[lastK]
   /\ session[lastK] = "open"
   /\ relLog # <<>>)
    => relLog[1] = "close"

\* C10: when microphone acquisition fails for a connect(), no remote session is
\* requested for it (so it never becomes Connected), an error message is set,
\* and both audio contexts that connect() created are released.
C10_AcquisitionFailureIsFatal ==
  /\ \A k \in Attempts :
       connectPc[k] = "denied"
         => (session[k] = "none" /\ inCtx[k] = "released" /\ outCtx[k] = "released")
  /\ (lastOp = "micDenied" => error # "null")

\* C11: a remote close and a remote error both leave isConnected false; the
\* error sets the error string, and the close leaves the error value as it was.
C11_RemoteCloseAndError ==
  [][\A k \in Attempts :
       (session[k] \in {"handshaking", "open"} /\ session'[k] = "closed")
         => (/\ ~isConnected'
             /\ lastOp' \in {"onclose", "onerror"}
             /\ lastOp' = "onerror" => error' = "Connection error occurred."
             /\ lastOp' = "onclose" => error' = error)]_vars

\* A remote close arrived while an error was shown, and the error is still
\* shown.
C11_CloseKeepsError ==
  lastOp = "onclose" /\ ~isConnected /\ error = "Permission denied"

\* The entries of the transcript that are partial and of the given role.
PartialsOf(s, role) == {i \in 1..Len(s) : IsPartialOf(s[i], role)}

\* C12: in every state, the transcript holds at most one partial entry of
\* each role.
C12_OnePartialPerRole ==
  \A role \in {"user", "model"} : Cardinality(PartialsOf(transcripts, role)) <= 1

\* C13: an entry that is finalized stays where it is, with its role and its
\* text, through every later step; so the finalized entries never get fewer.
C13_FinalizedStable ==
  [][\A i \in 1..Len(transcripts) :
       ~transcripts[i].isPartial
         => (i <= Len(transcripts') /\ transcripts'[i] = transcripts[i])]_vars

\* Two turns of one role were finalized, the first one still in its place.
C13_TwoTurnsFinalized ==
  \E i, j \in 1..Len(transcripts) :
    /\ i < j
    /\ transcripts[i].role = transcripts[j].role
    /\ ~transcripts[i].isPartial
    /\ ~transcripts[j].isPartial
    /\ transcripts[i].text # transcripts[j].text

\* C14: no entry of the transcript, partial or finalized, has an empty text
\* (so no turnComplete finalized an entry from an empty buffer).
C14_NoEmptyRows ==
  \A i \in 1..Len(transcripts) : transcripts[i].text # ""

\* C15: when the transcript events from the start are partialOutput fragments
\* (one or more) followed by one turnComplete, and every update is rendered, the
\* transcript is exactly one finalized model entry whose text is the fragments
\* concatenated in arrival order.
C15_FragmentsConcatenate ==
  (script = "done" /\ updateQueue = <<>>)
    => transcripts = <<Entry("model", fragments, FALSE)>>

\* C15, for fragments that are not all empty: the transcript is exactly one
\* finalized model entry whose text is the fragments concatenated in arrival
\* order.
C15_NonEmptyFragmentsConcatenate ==
  (script = "done" /\ updateQueue = <<>> /\ fragments # "")
    => transcripts = <<Entry("model", fragments, FALSE)>>

\* Two fragments and a turnComplete were rendered.
C15_TwoFragmentsFinalized ==
  /\ script = "done"
  /\ updateQueue = <<>>
  /\ fragments = "ab"
  /\ transcripts = <<Entry("model", "ab", FALSE)>>

\* The list a turnComplete makes of s when it replaces, for a role whose
\* accumulated text is not empty, the partial entry of the highest index.
MostRecentFinalized(s, role, final) ==
  LET P == PartialsOf(s, role) IN
  IF final # "" /\ P # {}
  THEN [s EXCEPT ![CHOOSE i \in P : \A j \in P : j <= i] = Entry(role, final, FALSE)]
  ELSE s

\* C17: a turnComplete update replaces, for each role whose accumulated text is
\* not empty, the partial entry of that role with the highest index, and
\* nothing else; after a message with turnComplete both accumulation refs are
\* empty.
C17_TurnCompleteFinalizesMostRecent ==
  /\ lastTurn.ran
       => lastTurn.next =
            MostRecentFinalized(
              MostRecentFinalized(lastTurn.prev, "user", lastTurn.finalInput),
              "model", lastTurn.finalOutput)
  /\ (lastOp = "onmessage" /\ lastMsg.turnComplete)
       => (currentInputTransRef = "" /\ currentOutputTransRef = "")

\* The last step ran the interrupted branch of a message: at once, or when
\* the decode of the message's audio resolved.
InterruptHandled ==
  /\ lastMsg.interrupted
  /\ lastOp = "decodeDone" \/ (lastOp = "onmessage" /\ ~lastMsg.audio)

\* C16: when an interrupted message has been handled no buffer is playing, the
\* active set is empty and the cursor is zero; and the buffer scheduled next
\* is started no earlier than its context's clock reads when it is scheduled.
C16_InterruptionResetsPlayback ==
  /\ [](InterruptHandled
          => (/\ activeSourcesRef = {}
              /\ nextStartTimeRef = 0
              /\ \A c \in Chunks : source[c].st # "playing"))
  /\ [][\A c \in Chunks :
          (InterruptHandled /\ source[c].st = "none" /\ source'[c].st # "none")
            => source'[c].start >= currentTime[source'[c].ctx]]_vars

\* C18: every buffer is started at the larger of the cursor and its context's
\* clock as they are when it is scheduled, and the buffers in the active set
\* of one context play in intervals that do not overlap.
C18_BuffersNeverOverlap ==
  /\ \A c \in Chunks : source[c].st # "none" => source[c].start = source[c].begin
  /\ \A c, d \in activeSourcesRef :
       (c # d /\ source[c].ctx = source[d].ctx)
         => \/ source[c].begin + source[c].dur <= source[d].begin
            \/ source[d].begin + source[d].dur <= source[c].begin

\* C19: a decode that fails starts no buffer and, interruption of the same
\* message aside, leaves the sources and the active set as they were; it leaves
\* isConnected, the sessions and the transcript as they were; and a decode
\* that succeeds, whatever failed before it, starts its buffer and, unless its
\* message interrupts, adds it to the active set.
C19_DecodeFailureIsLocal ==
  [][\A c \in Chunks :
       /\ (decode[c].st = "pending" /\ decode'[c].st = "failed")
            => (/\ source'[c] = NoSource
                /\ ~decode[c].interrupted
                     => UNCHANGED <<source, activeSourcesRef>>
                /\ UNCHANGED <<isConnected, error, session, transcripts,
                               updateQueue>>)
       /\ (decode[c].st = "pending" /\ decode'[c].st = "done")
            => (/\ source'[c].st \in {"playing", "stopped"}
                /\ ~decode[c].interrupted
                     => (source'[c].st = "playing" /\ c \in activeSourcesRef'))]_vars

\* A chunk failed to decode, and a chunk that arrived after it was decoded
\* and scheduled while the session is connected.
C19_FailedThenScheduled ==
  \E c, d \in Chunks :
    /\ c < d
    /\ decode[c].st = "failed"
    /\ decode[d].st = "done"
    /\ source[d].st = "playing"
    /\ d \in activeSourcesRef
    /\ isConnected

\* The connect() calls whose remote session is requested or open.
LiveSessions == {k \in Attempts : session[k] \in {"handshaking", "open"}}

\* C20: at most one remote session is live, and at most one object of each
\* kind of handle; and a connect() called while a session is handshaking or
\* open overwrites no ref that holds an unreleased context.
C20_SingleSession ==
  /\ [](/\ Cardinality(LiveSessions) <= 1
        /\ \A obj \in {inCtx, outCtx, stream, proc, srcNode} :
             Cardinality({k \in Attempts : obj[k] = "live"}) <= 1)
  /\ [][(nConnects' = nConnects + 1 /\ LiveSessions # {})
         => (/\ inputContextRef # Null => inputContextRef' = inputContextRef
             /\ outputContextRef # Null => outputContextRef' = outputContextRef)]_vars

\* The Capture Pipeline is Idle: no microphone stream and no processor is held
\* by a ref, and none that a connect() made is still live.
CaptureIdle ==
  /\ inputProcessorRef = Null
  /\ streamRef = Null
  /\ \A k \in Attempts : proc[k] # "live" /\ stream[k] # "live"

\* C21: whenever the session is Disconnected, however it got there, the Capture
\* Pipeline is Idle, and a capture tick in that state sends no frame to a
\* session and queues none.
C21_DisconnectedCaptureIdle ==
  /\ [](Disconnected => CaptureIdle)
  /\ [][(Disconnected /\ lastOp' = "tick")
          => (frameSends' = frameSends /\ pendingThen' = pendingThen)]_vars

\* C22: when connect() is called right after a disconnect(), both accumulation
\* buffers are empty, whatever the turn the disconnect() cut short had
\* accumulated, so the new session's first partial entry starts from nothing.
C22_BuffersEmptyAtReconnect ==
  [][(lastOp = "disconnect" /\ nConnects' = nConnects + 1)
       => (currentInputTransRef' = "" /\ currentOutputTransRef' = "")]_vars

\* C23: the list a turnComplete update makes has no partial entry, whatever
\* partialInput, partialOutput and interrupted events came before it.
C23_TurnLeavesNothingPartial ==
  lastTurn.ran => \A i \in 1..Len(lastTurn.next) : ~lastTurn.next[i].isPartial
====
